---- MODULE Spec2Model ----
(***************************************************************************)
(* Model of the watch-mode orchestration of src/gulp/default-paths.js      *)
(* (syrup's gulp task registration): the runOrQueue run coalescer, the     *)
(* shared browserify/watchify bundler with its 'update' handler, the       *)
(* npm prune / npm install reconciliation chain and the gulp.watch         *)
(* handlers registered by the 'watch' task.                                *)
(*                                                                         *)
(* File paths are sequences of tokens: a name, "/" or ".", so that         *)
(* String.split, String.indexOf and path.basename are computed on the      *)
(* path's text and not assumed.                                            *)
(***************************************************************************)
EXTENDS Integers, Sequences, FiniteSets, TLC

(***************************************************************************)
(* Bounds of the model.                                                    *)
(***************************************************************************)
\* Number of external change notifications (watcher callbacks and watchify
\* 'update' events) delivered in one behaviour.
MaxEvents == 3
\* Largest change set watchify hands to the 'update' handler.
MaxChangeSet == 2

(***************************************************************************)
(* Task names handed to runOrQueue (lines 200, 473, 477, 481).             *)
(***************************************************************************)
Tasks == {"html-js", "html-less", "html-assets", "html-only"}

(***************************************************************************)
(* Paths.                                                                  *)
(***************************************************************************)
\* process.cwd(), the default of paths.base (line 5).
Base == <<"/", "w">>

Abs(rel) == Base \o <<"/">> \o rel

MainJsx == Abs(<<"app", "/", "main", ".", "jsx">>)
WidgetJs == Abs(<<"app", "/", "assets", "/", "widget", ".", "js">>)
DepJs == Abs(<<"node_modules", "/", "dep", "/", "index", ".", "js">>)
PkgJson == Abs(<<"package", ".", "json">>)
DepPkgJson == Abs(<<"node_modules", "/", "dep", "/", "package", ".", "json">>)
FooPkgJson == Abs(<<"app", "/", "foo", ".", "package", ".", "json">>)
PkgLock == Abs(<<"package", ".", "lock">>)
APng == Abs(<<"app", "/", "assets", "/", "a", ".", "png">>)
MainLess == Abs(<<"app", "/", "main", ".", "less">>)
ThemeLess == Abs(<<"app", "/", "assets", "/", "theme", ".", "less">>)
IndexHtml == Abs(<<"app", "/", "index", ".", "html">>)

\* Files of the bundle's dependency graph: the files watchify watches and
\* may report in changedFiles (modules and the package.json files browserify
\* reads), the node_modules ones included (the bug the comment at lines
\* 223-225 describes).
BundleFiles == {MainJsx, WidgetJs, DepJs, PkgJson, DepPkgJson, FooPkgJson, PkgLock}

\* Files of the project tree gulp.watch may report.
TreeFiles == {MainJsx, WidgetJs, APng, MainLess, ThemeLess, IndexHtml, PkgJson}

\* The change sets watchify emits: the keys of an object, so distinct paths.
ChangeSets == {s \in SUBSET BundleFiles : Cardinality(s) \in 1..MaxChangeSet}

(***************************************************************************)
(* String helpers on token sequences.                                      *)
(***************************************************************************)
\* f.indexOf(needle) !== -1
Contains(f, needle) ==
  \E i \in 1..(Len(f) - Len(needle) + 1) :
    SubSeq(f, i, i + Len(needle) - 1) = needle

\* f.split(sep) for a one-token separator: the parts, empty ones kept.
RECURSIVE SplitAcc(_, _, _, _)
SplitAcc(f, sep, cur, acc) ==
  IF f = <<>> THEN Append(acc, cur)
  ELSE IF Head(f) = sep THEN SplitAcc(Tail(f), sep, <<>>, Append(acc, cur))
  ELSE SplitAcc(Tail(f), sep, Append(cur, Head(f)), acc)

Split(f, sep) == SplitAcc(f, sep, <<>>, <<>>)

\* path.basename(p): the last portion of p, trailing separators ignored.
RECURSIVE Basename(_)
Basename(p) ==
  IF p = <<>> THEN <<>>
  ELSE IF p[Len(p)] = "/" THEN Basename(SubSeq(p, 1, Len(p) - 1))
  ELSE LET parts == Split(p, "/") IN parts[Len(parts)]

\* The path's segments (its parts between separators, empty ones dropped).
Segments(f) == SelectSeq(Split(f, "/"), LAMBDA s : s # <<>>)

(***************************************************************************)
(* Glob matching as gulp.watch applies it to the configured patterns       *)
(* (lines 6-11): "**" spans any number of directories, "*" any run of      *)
(* characters of one segment that does not begin with a dot.               *)
(***************************************************************************)
RECURSIVE SegMatch(_, _)
SegMatch(p, s) ==
  IF p = <<>> THEN s = <<>>
  ELSE IF Head(p) = "*"
    THEN \E k \in 0..Len(s) : SegMatch(Tail(p), SubSeq(s, k + 1, Len(s)))
  ELSE s # <<>> /\ Head(s) = Head(p) /\ SegMatch(Tail(p), Tail(s))

SegmentMatches(p, s) ==
  /\ (Head(p) = "*" => Head(s) # ".")
  /\ SegMatch(p, s)

RECURSIVE GlobSegs(_, _)
GlobSegs(ps, ss) ==
  IF ps = <<>> THEN ss = <<>>
  ELSE IF Head(ps) = <<"**">>
    THEN GlobSegs(Tail(ps), ss) \/ (ss # <<>> /\ GlobSegs(ps, Tail(ss)))
  ELSE ss # <<>> /\ SegmentMatches(Head(ps), Head(ss)) /\ GlobSegs(Tail(ps), Tail(ss))

\* Whether the absolute path f matches pattern, resolved against Base.
GlobMatch(pattern, f) == GlobSegs(Segments(Abs(pattern)), Segments(f))

\* paths.allLess, paths.assets, paths.html (lines 7, 11, 6).
AllLess == <<"app", "/", "**", "/", "*", ".", "less">>
Assets == <<"app", "/", "assets", "/", "**", "/", "*">>
Html == <<"app", "/", "index", ".", "html">>

(***************************************************************************)
(* The 'update' handler's filters (lines 226-243).                         *)
(***************************************************************************)
NodeModulesDir == <<"/", "node_modules", "/">>

\* changedFiles.filter(f => f.indexOf('/node_modules/') !== -1)
NodeModuleChanges(changedFiles) ==
  {f \in changedFiles : Contains(f, NodeModulesDir)}

\* The filter function of packageJsonChanges (lines 232-242).
IsPackageJsonChange(f) ==
  LET fileParts == Split(f, ".")
      n == Len(fileParts) IN
  IF n > 1
  THEN Basename(fileParts[n - 1]) = <<"package">> /\ fileParts[n] = <<"json">>
  ELSE FALSE

PackageJsonChanges(changedFiles) ==
  {f \in changedFiles : IsPackageJsonChange(f)}

\* A mixed change set taken for noise: any node_modules path silences it.
ChangesGenuineNoneInside(changedFiles) ==
  NodeModuleChanges(changedFiles) = {}

\* nodeModuleChanges.length !== changedFiles.length (line 229)
ChangesGenuine(changedFiles) ==
  Cardinality(NodeModuleChanges(changedFiles)) # Cardinality(changedFiles)

\* packageJsonChanges.length > 0 (line 243)
ManifestChanged(changedFiles) ==
  Cardinality(PackageJsonChanges(changedFiles)) > 0

(***************************************************************************)
(* State.                                                                  *)
(***************************************************************************)
VARIABLES
  phase,            \* "init", "building" (the watch task's build), "watching"
  watchJs,          \* line 204
  bundlerInstance,  \* line 203: 0 (undefined) or the session's identity
  made,             \* number of browserify instances constructed so far
  watchified,       \* the sessions wrapped by watchify, 'update' handler attached
  closed,           \* the sessions that were reset() and close()d
  bundled,          \* the sessions bundle() was called on
  buildBundle,      \* the initial build's bundle: 0 before the 'js' task, k
                    \* while bundle() runs on session k, -k when it has ended
  runningTasks,     \* line 439: task name -> re-run on completion?
  started,          \* per task: runs started by gulp.start in runOrQueue
  completed,        \* per task: runs whose completion callback was called
  logs,             \* per task: 'Build finished' messages (line 451)
  loggedAt,         \* per task: runs started when the last message was logged
  jsRuns,           \* in-flight 'html-js' runs: session bundled, 0 before 'js'
  nPrune,           \* 'npm prune' child processes running
  nInstall,         \* 'npm install' child processes running
  rebundles,        \* calls of rebundleJs ('Rebundling javascript' lines)
  events,           \* change notifications delivered so far
  \* Observers: what the environment saw, kept apart from the code's state.
  fresh,            \* per task: requests made while no run was in flight
  during,           \* per task: requests made while a run was in flight
  burst,            \* per task: requests made during the current run
  waves,            \* per task: completed runs during which a request came
  unserved,         \* per task: a request came after the last run start
  genuine,          \* change sets handled holding a path outside node_modules
  manifestReqs,     \* calls of rebundleJs made by the prune/install callbacks
  outcomes,         \* reconciliations ended, by outcome
  stale,            \* some bundle() started on a closed session
  lastOk,           \* whether the last completed run succeeded
  lastWatch,        \* the path whose change is being notified and the tasks
                    \* requested for it so far; any other step ends the delivery
  e2e,              \* progress of the scenario asset, asset, stylesheet
  lastChange,       \* the change set the step just taken handed to the
                    \* 'update' handler, {} after any other step
  observing         \* which of lastOk, lastWatch, e2e and lastChange this
                    \* behaviour records

code == <<phase, watchJs, bundlerInstance, made, watchified, closed, bundled,
          buildBundle, runningTasks, started, completed, logs, loggedAt,
          jsRuns, nPrune, nInstall, rebundles, events>>
observers == <<fresh, during, burst, waves, unserved, genuine, manifestReqs,
               outcomes, stale, lastOk, lastWatch, e2e, lastChange>>
vars == <<code, observers, observing>>

Zero == [n \in Tasks |-> 0]
Observed == {"runs", "outcome", "paths", "scenario"}
Outcomes == {"pruneFailed", "installFailed", "installed"}
NoWatch == [path |-> <<>>, tasks |-> {}]
InFlight(n) == started[n] - completed[n]

(***************************************************************************)
(* runOrQueue (lines 439-461).  The coalescer's state is passed as a       *)
(* record: rt (runningTasks), started, logs, loggedAt, jsRuns.             *)
(***************************************************************************)
Put(rt, name, v) == [m \in DOMAIN rt \cup {name} |-> IF m = name THEN v ELSE rt[m]]
Delete(rt, name) == [m \in DOMAIN rt \ {name} |-> rt[m]]

\* A falsy test in place of the comparison with undefined.
IsNotRunningFalsy(rt, name) == name \notin DOMAIN rt \/ rt[name] = FALSE

\* runningTasks[name] === undefined (line 447)
IsNotRunning(rt, name) == name \notin DOMAIN rt

\* gulp.start(name, callback): a run of the task begins; its 'js' dependency
\* (of 'html-js', line 426) has yet to call bundler().bundle().
GulpStart(c, name) ==
  [c EXCEPT !.started[name] = @ + 1,
            !.jsRuns = IF name = "html-js" THEN Append(@, 0) ELSE @]

\* runOrQueue that drops a request made while the task runs.
RunOrQueueDropWhileRunning(c, name) ==
  IF IsNotRunning(c.rt, name)
  THEN GulpStart([c EXCEPT !.rt = Put(@, name, FALSE)], name)
  ELSE c

\* runOrQueue that starts a run for every request, recorded as pending or not.
RunOrQueueEveryRequest(c, name) ==
  IF IsNotRunning(c.rt, name)
  THEN GulpStart([c EXCEPT !.rt = Put(@, name, FALSE)], name)
  ELSE GulpStart([c EXCEPT !.rt = Put(@, name, TRUE)], name)

\* runOrQueue with one flag for all tasks: a request made while any task
\* runs is held back.
RunOrQueueOneAtATime(c, name) ==
  IF DOMAIN c.rt = {}
  THEN GulpStart([c EXCEPT !.rt = Put(@, name, FALSE)], name)
  ELSE [c EXCEPT !.rt = Put(@, name, TRUE)]

RunOrQueue(c, name) ==
  IF IsNotRunning(c.rt, name)
  THEN GulpStart([c EXCEPT !.rt = Put(@, name, FALSE)], name)
  ELSE [c EXCEPT !.rt = Put(@, name, TRUE)]

\* outputBuildCompleteMessage (lines 91-93), called at line 451: one 'Build
\* finished successfully in ...' line, whatever the run's outcome.
OutputBuildCompleteMessage(c, name) ==
  [c EXCEPT !.logs[name] = @ + 1, !.loggedAt[name] = c.started[name]]

\* The callback that forgets the re-run.
OnDoneNoRerun(c, name, ok) ==
  [OutputBuildCompleteMessage(c, name) EXCEPT !.rt = Delete(@, name)]

\* The callback that keeps the entry.
OnDoneKeepEntry(c, name, ok) ==
  LET shouldRunAgain == name \in DOMAIN c.rt /\ c.rt[name]
      d == OutputBuildCompleteMessage(c, name) IN
  IF shouldRunAgain THEN RunOrQueue(d, name) ELSE d

\* The callback that returns early when the run failed.
OnDoneAbortOnError(c, name, ok) ==
  LET shouldRunAgain == name \in DOMAIN c.rt /\ c.rt[name]
      d == [OutputBuildCompleteMessage(c, name) EXCEPT !.rt = Delete(@, name)] IN
  IF ~ok THEN c
  ELSE IF shouldRunAgain THEN RunOrQueue(d, name) ELSE d

\* The callback that logs the completion after it has started the re-run.
OnDoneLogAfterRerun(c, name, ok) ==
  LET shouldRunAgain == name \in DOMAIN c.rt /\ c.rt[name]
      d == [c EXCEPT !.rt = Delete(@, name)] IN
  OutputBuildCompleteMessage(IF shouldRunAgain THEN RunOrQueue(d, name) ELSE d, name)

\* The callback handed to gulp.start (lines 450-457); ok, the run's outcome,
\* is not looked at.
OnDone(c, name, ok) ==
  LET shouldRunAgain == name \in DOMAIN c.rt /\ c.rt[name]
      d == [OutputBuildCompleteMessage(c, name) EXCEPT !.rt = Delete(@, name)] IN
  IF shouldRunAgain THEN RunOrQueue(d, name) ELSE d

(***************************************************************************)
(* bundler (lines 210-293), on a record: inst, made, watchified.           *)
(***************************************************************************)
\* bundler that hands back the last session made, closed or not, when there
\* is one.
BundlerReviveLast(b, watch) ==
  IF b.inst = 0 /\ b.made = 0
  THEN [inst |-> 1, made |-> 1,
        watchified |-> IF watch THEN b.watchified \cup {1} ELSE b.watchified]
  ELSE [b EXCEPT !.inst = b.made]

Bundler(b, watch) ==
  IF b.inst = 0
  THEN [inst |-> b.made + 1, made |-> b.made + 1,
        watchified |-> IF watch THEN b.watchified \cup {b.made + 1}
                       ELSE b.watchified]
  ELSE b

(***************************************************************************)
(* rebundleJs (lines 198-201) and the handlers that call it, on a record:  *)
(* c (the coalescer), inst, closed, nPrune, nInstall, rebundles.           *)
(***************************************************************************)
RebundleJs(h) ==
  [h EXCEPT !.rebundles = @ + 1, !.c = RunOrQueue(@, "html-js")]

\* The handler that keeps the closed instance (line 248 left out).
InvalidateKeepInstance(h) ==
  [h EXCEPT !.closed = @ \cup {h.inst}, !.nPrune = @ + 1]

\* Lines 246-250: reset, close and release the bundler, start 'npm prune'.
Invalidate(h) ==
  [h EXCEPT !.closed = @ \cup {h.inst}, !.inst = 0, !.nPrune = @ + 1]

\* The branch the 'update' handler takes on each change set (lines 229, 243).
UpdateBranch ==
  [changedFiles \in ChangeSets |->
     IF ChangesGenuine(changedFiles)
     THEN IF ManifestChanged(changedFiles) THEN "manifest" ELSE "script"
     ELSE "noise"]

\* The 'update' handler (lines 222-278).
UpdateHandler(h, changedFiles) ==
  CASE UpdateBranch[changedFiles] = "manifest" -> Invalidate(h)
    [] UpdateBranch[changedFiles] = "script" -> RebundleJs(h)
    [] OTHER -> h

\* The prune callback that gives up on an error.
PruneCallbackSilent(h, err) ==
  IF err THEN h ELSE [h EXCEPT !.nInstall = @ + 1]

\* The prune callback that requests the rebuild as it starts the install.
PruneCallbackRebuildAtOnce(h, err) ==
  IF err THEN RebundleJs(h) ELSE RebundleJs([h EXCEPT !.nInstall = @ + 1])

\* The callback of exec('npm prune') (lines 250-272).
PruneCallback(h, err) ==
  IF err THEN RebundleJs(h) ELSE [h EXCEPT !.nInstall = @ + 1]

\* The callback of exec('npm install') (lines 259-270).
InstallCallback(h, err) == RebundleJs(h)

(***************************************************************************)
(* The state machine.                                                      *)
(*                                                                         *)
(* The libraries the file calls are taken at their contract: gulp.start    *)
(* runs the named task and calls the callback once when the run ends, well *)
(* or not; childProcess.exec calls its callback once when the process      *)
(* ends; watchify emits 'update' from a session that has bundled and was   *)
(* not closed; gulp.watch calls a watcher's callback for a changed file    *)
(* that matches the watcher's pattern.  The 'js' task of a run is a step   *)
(* of its own, taken some time between the run's start and its end; the   *)
(* end of the initial build's bundle is another.                           *)
(*                                                                         *)
(* Each handler result is bound once (\E x \in {...}) before its fields    *)
(* are assigned.                                                           *)
(***************************************************************************)
CState == [rt |-> runningTasks, started |-> started, logs |-> logs,
           loggedAt |-> loggedAt, jsRuns |-> jsRuns]
HState == [c |-> CState, inst |-> bundlerInstance, closed |-> closed,
           nPrune |-> nPrune, nInstall |-> nInstall, rebundles |-> rebundles]
BState == [inst |-> bundlerInstance, made |-> made, watchified |-> watchified]

SetC(c) ==
  /\ runningTasks' = c.rt
  /\ started' = c.started
  /\ logs' = c.logs
  /\ loggedAt' = c.loggedAt
  /\ jsRuns' = c.jsRuns

SetH(h) ==
  /\ SetC(h.c)
  /\ bundlerInstance' = h.inst
  /\ closed' = h.closed
  /\ nPrune' = h.nPrune
  /\ nInstall' = h.nInstall
  /\ rebundles' = h.rebundles

SetB(b) ==
  /\ bundlerInstance' = b.inst
  /\ made' = b.made
  /\ watchified' = b.watchified

\* What the environment notes when a step asks (or does not ask) for a run of n.
Requested(n) ==
  /\ fresh' = IF InFlight(n) = 0 THEN [fresh EXCEPT ![n] = @ + 1] ELSE fresh
  /\ during' = IF InFlight(n) > 0 THEN [during EXCEPT ![n] = @ + 1] ELSE during
  /\ burst' = [burst EXCEPT ![n] = IF started'[n] > started[n] THEN 0 ELSE @ + 1]
  /\ unserved' = [unserved EXCEPT ![n] = ~(started'[n] > started[n])]
  /\ UNCHANGED waves

NotRequested == UNCHANGED <<fresh, during, burst, waves, unserved>>

\* The scenario of two asset changes and then one stylesheet change, with no
\* run completed before the third: 0, 1, 2, 3 (all three delivered), 9 (off).
E2E(kind) ==
  CASE observing # "scenario" -> e2e
    [] kind = "asset" /\ e2e = 0 /\ DOMAIN runningTasks = {} -> 1
    [] kind = "asset" /\ e2e = 1 -> 2
    [] kind = "less" /\ e2e = 2 -> 3
    [] kind = "complete" /\ e2e \in {0, 3, 9} -> e2e
    [] OTHER -> 9

\* The change sets that hold a path outside the node_modules directory.
OutsideSets ==
  {cs \in ChangeSets : \E f \in cs : ~Contains(f, NodeModulesDir)}

\* Watchers in a priority order: a file notifies the first watcher, of
\* stylesheet, markup and asset, whose pattern it matches, and none when
\* watchify watches it.
WatchedByPriority ==
  [pattern \in {AllLess, Assets, Html} |->
     {path \in TreeFiles \ BundleFiles :
        /\ GlobMatch(pattern, path)
        /\ pattern = Html => ~GlobMatch(AllLess, path)
        /\ pattern = Assets => ~GlobMatch(AllLess, path) /\ ~GlobMatch(Html, path)}]

\* The files each watcher's pattern matches (lines 471, 475, 479).
Watched ==
  [pattern \in {AllLess, Assets, Html} |->
     {path \in TreeFiles : GlobMatch(pattern, path)}]

Noted(path, n) ==
  IF observing # "paths" THEN NoWatch
  ELSE IF lastWatch.path = path
  THEN [path |-> path, tasks |-> lastWatch.tasks \cup {n}]
  ELSE [path |-> path, tasks |-> {n}]

Init ==
  /\ phase = "init"
  /\ watchJs = FALSE
  /\ bundlerInstance = 0
  /\ made = 0
  /\ watchified = {}
  /\ closed = {}
  /\ bundled = {}
  /\ buildBundle = 0
  /\ runningTasks = << >>
  /\ started = Zero
  /\ completed = Zero
  /\ logs = Zero
  /\ loggedAt = Zero
  /\ jsRuns = << >>
  /\ nPrune = 0
  /\ nInstall = 0
  /\ rebundles = 0
  /\ events = 0
  /\ fresh = Zero
  /\ during = Zero
  /\ burst = Zero
  /\ waves = Zero
  /\ unserved = [n \in Tasks |-> FALSE]
  /\ genuine = 0
  /\ manifestReqs = 0
  /\ outcomes = [o \in Outcomes |-> 0]
  /\ stale = FALSE
  /\ lastOk = TRUE
  /\ lastWatch = NoWatch
  /\ e2e = 0
  /\ lastChange = {}
  /\ observing \in Observed

\* The 'js' task run ahead of the watch task in the same process (as in
\* `gulp js watch`; lines 367-384): bundler().bundle() while watchJs is
\* still false.
JsAlone ==
  /\ phase = "init"
  /\ UNCHANGED observing
  /\ bundlerInstance = 0
  /\ \E b \in {Bundler(BState, watchJs)} :
       /\ SetB(b)
       /\ bundled' = bundled \cup {b.inst}
  /\ UNCHANGED <<phase, watchJs, closed, buildBundle, runningTasks, started,
                 completed, logs, loggedAt, jsRuns, nPrune, nInstall,
                 rebundles, events, observers>>

\* gulp.task('watch') up to gulp.start('build', ...) (lines 466-470).
WatchTask ==
  /\ phase = "init"
  /\ UNCHANGED observing
  /\ phase' = "building"
  /\ watchJs' = TRUE
  /\ \E b \in {Bundler(BState, TRUE)} : SetB(b)
  /\ UNCHANGED <<closed, bundled, buildBundle, runningTasks, started, completed,
                 logs, loggedAt, jsRuns, nPrune, nInstall, rebundles, events, observers>>

\* The 'js' task of the initial build (lines 367-384, started by line 493).
BuildJs ==
  /\ phase = "building"
  /\ UNCHANGED observing
  /\ buildBundle = 0
  /\ \E b \in {Bundler(BState, watchJs)} :
       /\ SetB(b)
       /\ buildBundle' = b.inst
       /\ bundled' = bundled \cup {b.inst}
       /\ stale' = (stale \/ b.inst \in closed)
  /\ UNCHANGED <<phase, watchJs, closed, runningTasks, started, completed,
                 logs, loggedAt,
                 jsRuns, nPrune, nInstall, rebundles, events>>
  /\ UNCHANGED <<fresh, during, burst, waves, unserved, genuine, manifestReqs,
                 outcomes, lastOk, lastWatch, e2e, lastChange>>

\* The bundle of the initial build ends (the stream of line 377).
BuildJsEnd ==
  /\ phase = "building"
  /\ UNCHANGED observing
  /\ buildBundle > 0
  /\ buildBundle' = -buildBundle
  /\ UNCHANGED <<phase, watchJs, bundlerInstance, made, watchified, closed,
                 bundled, runningTasks, started, completed, logs, loggedAt,
                 jsRuns, nPrune, nInstall, rebundles, events, observers>>

\* The watchers registered beside gulp.start('build'), not in its callback:
\* they are live with the build still running.
BuildDoneAtOnce ==
  /\ phase = "building"
  /\ UNCHANGED observing
  /\ phase' = "watching"
  /\ UNCHANGED <<watchJs, bundlerInstance, made, watchified, closed, bundled,
                 buildBundle, runningTasks, started, completed, logs,
                 loggedAt, jsRuns, nPrune, nInstall, rebundles, events,
                 observers>>

\* The build's callback (lines 470-483): the three watchers are registered.
BuildDone ==
  /\ phase = "building"
  /\ UNCHANGED observing
  /\ buildBundle < 0
  /\ phase' = "watching"
  /\ UNCHANGED <<watchJs, bundlerInstance, made, watchified, closed, bundled,
                 buildBundle, runningTasks, started, completed, logs,
                 loggedAt, jsRuns,
                 nPrune, nInstall, rebundles, events, observers>>

\* A gulp.watch callback (lines 471-482): runOrQueue(name) for a changed path
\* that matches the watcher's pattern.
Watcher(pattern, name, kind, path) ==
  /\ phase = "watching"
  /\ UNCHANGED observing
  /\ events < MaxEvents
  /\ path \in Watched[pattern]
  /\ events' = events + 1
  /\ \E c \in {RunOrQueue(CState, name)} : SetC(c)
  /\ Requested(name)
  /\ lastWatch' = Noted(path, name)
  /\ lastChange' = {}
  /\ e2e' = E2E(kind)
  /\ UNCHANGED <<phase, watchJs, bundlerInstance, made, watchified, closed,
                 bundled, buildBundle, completed, nPrune, nInstall, rebundles>>
  /\ UNCHANGED <<genuine, manifestReqs, outcomes, stale, lastOk>>

LessChange == \E path \in TreeFiles : Watcher(AllLess, "html-less", "less", path)
AssetChange == \E path \in TreeFiles : Watcher(Assets, "html-assets", "asset", path)
HtmlChange == \E path \in TreeFiles : Watcher(Html, "html-only", "html", path)

\* watchify's 'update' event on the current session (lines 222-278).
Update(changedFiles) ==
  /\ events < MaxEvents
  /\ UNCHANGED observing
  /\ bundlerInstance # 0
  /\ bundlerInstance \in (watchified \cap bundled) \ closed
  /\ events' = events + 1
  /\ \E h \in {UpdateHandler(HState, changedFiles)} :
       /\ SetH(h)
       /\ IF h.rebundles > rebundles THEN Requested("html-js") ELSE NotRequested
       /\ lastWatch' = IF h.rebundles > rebundles /\ Cardinality(changedFiles) = 1
                       THEN Noted(CHOOSE f \in changedFiles : TRUE, "html-js")
                       ELSE NoWatch
  /\ genuine' = IF changedFiles \in OutsideSets THEN genuine + 1 ELSE genuine
  /\ e2e' = E2E("update")
  /\ lastChange' = IF observing = "paths" THEN changedFiles ELSE {}
  /\ UNCHANGED <<phase, watchJs, made, watchified, bundled, buildBundle, completed>>
  /\ UNCHANGED <<manifestReqs, outcomes, stale, lastOk>>

JsUpdate == \E changedFiles \in ChangeSets : Update(changedFiles)

\* 'npm prune' ends and its callback runs.
PruneDone(err) ==
  /\ nPrune > 0
  /\ UNCHANGED observing
  /\ \E h \in {PruneCallback([HState EXCEPT !.nPrune = @ - 1], err)} :
       /\ SetH(h)
       /\ IF h.rebundles > rebundles THEN Requested("html-js") ELSE NotRequested
       /\ manifestReqs' = manifestReqs + (h.rebundles - rebundles)
  /\ outcomes' = IF err THEN [outcomes EXCEPT !["pruneFailed"] = @ + 1] ELSE outcomes
  /\ UNCHANGED <<phase, watchJs, made, watchified, bundled, buildBundle,
                 completed, events>>
  /\ lastWatch' = NoWatch
  /\ lastChange' = {}
  /\ UNCHANGED <<genuine, stale, lastOk, e2e>>

PruneEnd == \E err \in BOOLEAN : PruneDone(err)

\* 'npm install' ends and its callback runs.
InstallDone(err) ==
  /\ nInstall > 0
  /\ UNCHANGED observing
  /\ \E h \in {InstallCallback([HState EXCEPT !.nInstall = @ - 1], err)} :
       /\ SetH(h)
       /\ IF h.rebundles > rebundles THEN Requested("html-js") ELSE NotRequested
       /\ manifestReqs' = manifestReqs + (h.rebundles - rebundles)
  /\ outcomes' = [outcomes EXCEPT ![IF err THEN "installFailed" ELSE "installed"] = @ + 1]
  /\ UNCHANGED <<phase, watchJs, made, watchified, bundled, buildBundle,
                 completed, events>>
  /\ lastWatch' = NoWatch
  /\ lastChange' = {}
  /\ UNCHANGED <<genuine, stale, lastOk, e2e>>

InstallEnd == \E err \in BOOLEAN : InstallDone(err)

\* The 'js' task of an 'html-js' run (lines 367-384): bundler().bundle().
JsTask ==
  \E i \in 1..Len(jsRuns) :
    /\ jsRuns[i] = 0
    /\ UNCHANGED observing
    /\ \E b \in {Bundler(BState, watchJs)} :
         /\ SetB(b)
         /\ jsRuns' = [jsRuns EXCEPT ![i] = b.inst]
         /\ bundled' = bundled \cup {b.inst}
         /\ stale' = (stale \/ b.inst \in closed)
    /\ UNCHANGED <<phase, watchJs, closed, buildBundle, runningTasks, started,
                   completed, logs, loggedAt, nPrune, nInstall, rebundles, events>>
    /\ lastWatch' = NoWatch
    /\ lastChange' = {}
    /\ UNCHANGED <<fresh, during, burst, waves, unserved, genuine, manifestReqs,
                   outcomes, lastOk, e2e>>

\* The jsRuns left when run i of 'html-js' ends.
Without(runs, i) == SubSeq(runs, 1, i - 1) \o SubSeq(runs, i + 1, Len(runs))

\* A run started by runOrQueue ends, well (ok) or not, and gulp calls the
\* callback of lines 450-457.
Complete(name, ok) ==
  /\ InFlight(name) > 0
  /\ UNCHANGED observing
  /\ \E i \in (IF name = "html-js" THEN 1..Len(jsRuns) ELSE {0}) :
       /\ name = "html-js" => jsRuns[i] # 0
       /\ \E c \in {OnDone(IF name = "html-js"
                              THEN [CState EXCEPT !.jsRuns = Without(@, i)]
                              ELSE CState, name, ok)} : SetC(c)
  /\ completed' = [completed EXCEPT ![name] = @ + 1]
  /\ lastOk' = IF observing = "outcome" THEN ok ELSE lastOk
  /\ waves' = [waves EXCEPT ![name] = IF burst[name] >= 1 THEN @ + 1 ELSE @]
  /\ burst' = [burst EXCEPT ![name] = 0]
  /\ unserved' = [unserved EXCEPT ![name] = IF started'[name] > started[name] THEN FALSE ELSE @]
  /\ e2e' = E2E("complete")
  /\ UNCHANGED <<phase, watchJs, bundlerInstance, made, watchified, closed,
                 bundled, buildBundle, nPrune, nInstall, rebundles, events>>
  /\ lastWatch' = NoWatch
  /\ lastChange' = {}
  /\ UNCHANGED <<fresh, during, genuine, manifestReqs, outcomes, stale>>

RunEnd == \E name \in Tasks, ok \in BOOLEAN : Complete(name, ok)

Next ==
  \/ JsAlone
  \/ WatchTask
  \/ BuildJs
  \/ BuildJsEnd
  \/ BuildDone
  \/ LessChange
  \/ AssetChange
  \/ HtmlChange
  \/ JsUpdate
  \/ PruneEnd
  \/ InstallEnd
  \/ JsTask
  \/ RunEnd

Spec == Init /\ [][Next]_vars

\* Every started run, bundle and child process ends: gulp calls each run's
\* callback and exec calls each process's callback.
RunsInit == Init /\ observing = "runs"

FairSpec ==
  /\ RunsInit
  /\ [][Next]_vars
  /\ WF_vars(RunEnd)
  /\ WF_vars(JsTask)
  /\ WF_vars(PruneEnd)
  /\ WF_vars(InstallEnd)
  /\ WF_vars(BuildJs)
  /\ WF_vars(BuildJsEnd)
  /\ WF_vars(BuildDone)

(***************************************************************************)
(* Properties.                                                             *)
(***************************************************************************)
TypeOK ==
  /\ phase \in {"init", "building", "watching"}
  /\ watchJs \in BOOLEAN
  /\ bundlerInstance \in 0..made
  /\ closed \subseteq 1..made
  /\ watchified \subseteq 1..made
  /\ bundled \subseteq 1..made
  /\ DOMAIN runningTasks \subseteq Tasks
  /\ \A n \in DOMAIN runningTasks : runningTasks[n] \in BOOLEAN
  /\ \A n \in Tasks : started[n] >= completed[n] /\ completed[n] >= 0
  /\ nPrune >= 0 /\ nInstall >= 0
  /\ events \in 0..MaxEvents

\* C1: for every task name, at most one run started by runOrQueue is in
\* flight (started and not yet completed) in every reachable state.
C1_AtMostOneRun ==
  /\ \A n \in Tasks : InFlight(n) <= 1
  /\ Len(jsRuns) <= 1

\* C1 witness: a request arrived while the task's run was in flight, and the
\* task still has exactly one run in flight.
C1_Witness ==
  \E n \in Tasks : during[n] >= 1 /\ InFlight(n) = 1 /\ started[n] >= 2

\* C2: the runs of a task are the requests that found no run in flight plus
\* one re-run for each completed run during which requests arrived, however
\* many requests arrived during it: N requests during one run add one run.
C2_OneRerunPerBurst ==
  \A n \in Tasks : started[n] = fresh[n] + waves[n]

\* C2 witness: two requests arrived during the first run of a task, and the
\* task has run twice in all and is done.
C2_Witness ==
  \E n \in Tasks :
    /\ fresh[n] = 1 /\ during[n] = 2 /\ waves[n] = 1
    /\ started[n] = 2 /\ completed[n] = 2

\* C3: no request is lost: when every started run completes, each request
\* made after the last run start of its task is followed by a run start of
\* that task; till then it is held as the pending flag of the run in flight.
C3_NoRequestLost ==
  /\ [](\A n \in Tasks :
          unserved[n] => /\ InFlight(n) = 1
                         /\ n \in DOMAIN runningTasks
                         /\ runningTasks[n] = TRUE)
  /\ \A n \in Tasks : unserved[n] ~> ~unserved[n]

\* C3 witness: a request is waiting for the run in flight to complete.
C3_Witness ==
  \E n \in Tasks : unserved[n] /\ burst[n] >= 1 /\ InFlight(n) = 1

Idle(n) == n \notin DOMAIN runningTasks /\ InFlight(n) = 0

\* C4: when requests stop arriving and every started run completes, every
\* task eventually reaches the Idle state and stays in it.
C4_IdleConvergence == \A n \in Tasks : <>[]Idle(n)

\* C4 witness: a task that ran with a request pending is Idle again.
C4_Witness ==
  \E n \in Tasks : Idle(n) /\ waves[n] >= 1 /\ completed[n] >= 2

Sum(f) == f["html-js"] + f["html-less"] + f["html-assets"] + f["html-only"]

\* C5: a run that fails is handled as one that succeeds: the task's entry is
\* cleared (and the completion logged), a request pending during the failed
\* run starts exactly one re-run, and nothing of any other task, of the
\* bundler or of the reconciliation changes.
C5_FailureHandledAlike ==
  [][\A n \in Tasks :
       (completed'[n] = completed[n] + 1 /\ lastOk' = FALSE) =>
         /\ logs'[n] = logs[n] + 1
         /\ IF n \in DOMAIN runningTasks /\ runningTasks[n]
            THEN /\ n \in DOMAIN runningTasks'
                 /\ runningTasks'[n] = FALSE
                 /\ started'[n] = started[n] + 1
            ELSE /\ n \notin DOMAIN runningTasks'
                 /\ started'[n] = started[n]
         /\ \A m \in Tasks \ {n} :
              /\ (m \in DOMAIN runningTasks) = (m \in DOMAIN runningTasks')
              /\ m \in DOMAIN runningTasks => runningTasks'[m] = runningTasks[m]
              /\ started'[m] = started[m]
              /\ completed'[m] = completed[m]
              /\ logs'[m] = logs[m]
         /\ UNCHANGED <<phase, bundlerInstance, closed, nPrune, nInstall, rebundles>>
    ]_vars

\* C5 witness: the only run completed so far failed while a request was
\* pending, and its re-run is in flight beside another task's run.
C5_Witness ==
  /\ lastOk = FALSE
  /\ Sum(completed) = 1
  /\ \E n \in Tasks :
       /\ completed[n] = 1 /\ started[n] = 2 /\ waves[n] = 1
       /\ n \in DOMAIN runningTasks /\ runningTasks[n] = FALSE
       /\ \E m \in Tasks \ {n} : InFlight(m) = 1

\* C6: every change set handled that holds a path outside node_modules has
\* had, or has a prune/install child process running that will give it,
\* exactly one rebundleJs call; a change set inside node_modules has none,
\* and closes no session.  When the child processes end, the rebuild
\* requests are in the end as many as those change sets.
C6_OneRebuildPerGenuineSet ==
  /\ [](/\ rebundles + nPrune + nInstall = genuine
        /\ Cardinality(closed) <= genuine)
  /\ <>[](rebundles = genuine)

\* C6 witness: three change sets were handled, one of them inside
\* node_modules, one an ordinary change and one with a manifest whose prune
\* failed: two rebuild requests were issued.
C6_Witness ==
  /\ events = 3 /\ genuine = 2 /\ rebundles = 2
  /\ Sum(fresh) + Sum(during) = 2
  /\ outcomes["pruneFailed"] = 1
  /\ manifestReqs = 1

\* C7: the session current after a manifest change is never one that was
\* invalidated, no bundle starts on an invalidated session, and each
\* invalidation has had, or awaits from its running child process, exactly
\* one rebuild request.
C7_FreshSessionOneRequest ==
  /\ bundlerInstance \notin closed
  /\ ~stale
  /\ manifestReqs + nPrune + nInstall = Cardinality(closed)

\* C7 witness: after a manifest change and its rebuild request, the 'js' task
\* bundles with a session made after the invalidated one.
C7_Witness ==
  /\ closed = {1}
  /\ manifestReqs = 1
  /\ jsRuns = <<2>>
  /\ bundlerInstance = 2

\* C8: each reconciliation that ended, by a failed prune, a failed install or
\* a successful install, called rebundleJs exactly once; and the bundler is
\* never left released with neither a child process running nor a rebuild
\* of 'html-js' under way that has yet to construct the session.
C8_FailureStillRebuilds ==
  /\ manifestReqs = outcomes["pruneFailed"] + outcomes["installFailed"]
                    + outcomes["installed"]
  /\ (phase # "init" /\ bundlerInstance = 0) =>
       \/ nPrune + nInstall > 0
       \/ /\ "html-js" \in DOMAIN runningTasks
          /\ \/ runningTasks["html-js"] = TRUE
             \/ \E i \in 1..Len(jsRuns) : jsRuns[i] = 0

\* C8 witness: the three outcomes have each happened once, with three
\* rebuild requests.
C8_Witness ==
  /\ outcomes["pruneFailed"] = 1
  /\ outcomes["installFailed"] = 1
  /\ outcomes["installed"] = 1
  /\ manifestReqs = 3

\* The files whose change requests a run of each task: the bundle's files
\* (watchify) and the files matching the watcher's pattern.
FilesOf(n) ==
  CASE n = "html-js" -> BundleFiles
    [] n = "html-less" -> {f \in TreeFiles : GlobMatch(AllLess, f)}
    [] n = "html-assets" -> {f \in TreeFiles : GlobMatch(Assets, f)}
    [] n = "html-only" -> {f \in TreeFiles : GlobMatch(Html, f)}

\* The one task of a path under the priority order Manifest/Script >
\* Stylesheet > Markup > Asset.
ByPriority(f) ==
  CASE f \in FilesOf("html-js") -> "html-js"
    [] f \in FilesOf("html-less") -> "html-less"
    [] f \in FilesOf("html-only") -> "html-only"
    [] f \in FilesOf("html-assets") -> "html-assets"
    [] OTHER -> "none"

AllIdle == \A n \in Tasks : Idle(n)

\* C10 as stated: after two asset changes and one stylesheet change, all
\* delivered before any run completed, 'html-assets' and 'html-less' have
\* each run once and logged one completion.
C10_OneRunEach ==
  (e2e = 3 /\ AllIdle) =>
    /\ started["html-assets"] = 1 /\ logs["html-assets"] = 1
    /\ started["html-less"] = 1 /\ logs["html-less"] = 1

\* C10 as amended: 'html-assets' has run twice (the run of the first change
\* and the one re-run the second change left pending), 'html-less' once, and
\* each run has logged one completion.
C10_AssetsTwiceLessOnce ==
  (e2e = 3 /\ AllIdle) =>
    /\ started["html-assets"] = 2 /\ logs["html-assets"] = 2
    /\ completed["html-assets"] = 2
    /\ started["html-less"] = 1 /\ logs["html-less"] = 1
    /\ completed["html-less"] = 1
    /\ started["html-js"] = 0 /\ started["html-only"] = 0

\* C10 witness: the three changes were delivered and every run has ended.
C10_Witness == e2e = 3 /\ AllIdle /\ Sum(completed) = 3

\* C11: every run started by runOrQueue has exactly one completion message:
\* a task's messages are as many as its completed runs in every state, the
\* step that completes a run logs one message for that task and no step
\* that completes none logs any, and the message is logged before the
\* coalesced re-run starts: message k is logged when k runs have started.
C11_OneMessagePerRun ==
  /\ [](\A n \in Tasks : logs[n] = completed[n] /\ loggedAt[n] = logs[n])
  /\ [][\A n \in Tasks :
          /\ completed'[n] = completed[n] + 1 => logs'[n] = logs[n] + 1
          /\ completed'[n] = completed[n] => logs'[n] = logs[n]]_vars

\* C11 witness: a run completed with a request pending: its message is
\* logged and the re-run it started is in flight.
C11_Witness ==
  \E n \in Tasks :
    /\ logs[n] = 1 /\ completed[n] = 1 /\ waves[n] = 1
    /\ started[n] = 2 /\ InFlight(n) = 1

\* C12: the 'Build finished successfully' message is logged only for a run
\* that succeeded: a step that completes a run and logs the message for it
\* completes a run that succeeded.
C12_SuccessMessageOnlyOnSuccess ==
  [][\A n \in Tasks :
       (/\ observing = "outcome"
        /\ completed'[n] = completed[n] + 1
        /\ logs'[n] = logs[n] + 1) => lastOk' = TRUE]_vars

\* C13: bundle() is never called on an invalidated session: in every step
\* in which a 'js' task (of an 'html-js' run or of the initial build) calls
\* bundler().bundle(), the session it bundles with is the current one and
\* was not reset and closed.
C13_BundleOnCurrentSession ==
  [][/\ \A i \in 1..Len(jsRuns) :
          (Len(jsRuns') = Len(jsRuns) /\ jsRuns[i] = 0 /\ jsRuns'[i] # 0) =>
            /\ jsRuns'[i] = bundlerInstance'
            /\ jsRuns'[i] \notin closed'
     /\ (buildBundle = 0 /\ buildBundle' # 0) =>
            /\ buildBundle' = bundlerInstance'
            /\ buildBundle' \notin closed'
    ]_vars

\* C13 witness: a manifest change closed the session while a run of 'html-js'
\* had yet to bundle; with 'npm prune' still running, the run's 'js' task
\* has bundled with a session made after the closed one.
C13_Witness ==
  /\ closed = {1}
  /\ nPrune = 1
  /\ manifestReqs = 0
  /\ jsRuns = <<2>>
  /\ bundlerInstance = 2

\* C14: after a manifest change the replacement session is constructed only
\* when prune and install have ended and before the rebuild request is
\* issued: no step constructs a session or starts a bundle while 'npm prune'
\* or 'npm install' is running, and the step of a prune or install callback
\* that issues the rebuild request leaves a session constructed.
C14_ReplacementAfterReconciliation ==
  [][/\ (made' > made /\ made > 0) => nPrune + nInstall = 0
     /\ \A i \in 1..Len(jsRuns) :
          (Len(jsRuns') = Len(jsRuns) /\ jsRuns[i] = 0 /\ jsRuns'[i] # 0) =>
            nPrune + nInstall = 0
     /\ manifestReqs' > manifestReqs => bundlerInstance' # 0
    ]_vars

\* A manifest by its name: a file called package.json.
IsManifest(f) == Basename(f) = <<"package", ".", "json">>

InsideNodeModules(f) == Contains(f, NodeModulesDir)

\* The step handled a change set as an ordinary script change: the session
\* is kept, not reset or closed, no child process starts, and rebundleJs is
\* called once.
OrdinaryScriptChange ==
  /\ bundlerInstance' = bundlerInstance
  /\ closed' = closed
  /\ nPrune' = nPrune /\ nInstall' = nInstall
  /\ rebundles' = rebundles + 1

\* The step invalidated the session and started 'npm prune'.
Invalidation ==
  /\ bundlerInstance' = 0
  /\ closed' = closed \cup {bundlerInstance}
  /\ nPrune' = nPrune + 1

\* C15: manifest detection looks only at the paths outside node_modules: a
\* change set whose manifests are all inside node_modules, and which holds
\* a path outside node_modules that is no manifest, is handled as an
\* ordinary script change.
C15_ManifestInsideNodeModulesIgnored ==
  [][(/\ lastChange' # {}
      /\ events' = events + 1
      /\ \E f \in lastChange' : IsManifest(f)
      /\ \A f \in lastChange' : IsManifest(f) => InsideNodeModules(f)
      /\ \E f \in lastChange' : ~InsideNodeModules(f) /\ ~IsManifest(f))
     => OrdinaryScriptChange]_vars

\* C16: a change set with a path outside node_modules and no manifest is
\* handled as an ordinary script change (the session kept, not reset or
\* closed, no prune or install, one rebuild request), and a session is
\* closed only by the step that handles a change set holding a manifest.
C16_NoManifestKeepsSession ==
  [][/\ (/\ lastChange' # {}
         /\ events' = events + 1
         /\ \E f \in lastChange' : ~InsideNodeModules(f)
         /\ \A f \in lastChange' : ~IsManifest(f))
        => OrdinaryScriptChange
     /\ (observing = "paths" /\ closed' # closed)
        => \E f \in lastChange' : IsManifest(f)
    ]_vars

\* C18: a path is taken for a manifest exactly when its file name is
\* package.json: the step that handles a change set with a path outside
\* node_modules invalidates the session and starts 'npm prune' when the set
\* holds a file named package.json, and handles it as an ordinary script
\* change when it holds none ('foo.package.json' and 'package.lock' are
\* none).
C18_ManifestIsPackageJsonByName ==
  [][(/\ lastChange' # {}
      /\ events' = events + 1
      /\ \E f \in lastChange' : ~InsideNodeModules(f))
     => IF \E f \in lastChange' : IsManifest(f)
        THEN Invalidation
        ELSE OrdinaryScriptChange]_vars

\* C17: the steps of a manifest change come in the order invalidate, prune,
\* install, rebuild request: 'npm prune' starts only in the step that has
\* reset, closed and released the session, and every such step starts it;
\* 'npm install' starts only in the step in which an 'npm prune' ended, and
\* that step requests no rebuild; the rebuild request of a manifest change
\* is issued only in a step in which its prune or its install ended with
\* no other child process started.
C17_InvalidatePruneInstallRebuild ==
  [][/\ nPrune' > nPrune => Invalidation /\ bundlerInstance # 0
     /\ closed' # closed => nPrune' = nPrune + 1 /\ nInstall' = nInstall
     /\ nInstall' > nInstall =>
          /\ nPrune' = nPrune - 1 /\ nInstall' = nInstall + 1
          /\ rebundles' = rebundles
     /\ manifestReqs' > manifestReqs =>
          /\ manifestReqs' = manifestReqs + 1
          /\ rebundles' = rebundles + 1
          /\ nPrune' + nInstall' = nPrune + nInstall - 1
          /\ nPrune' <= nPrune /\ nInstall' <= nInstall
    ]_vars

\* C17 witness: a manifest change ran its course: the session was closed,
\* prune and install ended well and the one rebuild request started a run
\* of 'html-js' that has yet to bundle.
C17_Witness ==
  /\ closed = {1}
  /\ nPrune = 0 /\ nInstall = 0
  /\ outcomes["installed"] = 1
  /\ manifestReqs = 1 /\ rebundles = 1
  /\ started["html-js"] = 1
  /\ jsRuns = <<0>>

\* C19: the bundling step has no two overlapping executions in watch mode:
\* when the 'js' task of an 'html-js' run calls bundle(), the bundle of the
\* initial build is not in flight, and no other run's bundle is in flight
\* on the same session.
C19_NoOverlappingBundles ==
  [][\A i \in 1..Len(jsRuns) :
       (Len(jsRuns') = Len(jsRuns) /\ jsRuns[i] = 0 /\ jsRuns'[i] # 0) =>
         /\ buildBundle <= 0
         /\ \A j \in 1..Len(jsRuns) : j # i => jsRuns[j] # jsRuns'[i]
    ]_vars

\* C20: a request for a task and the completion of a run of a task touch
\* that task's entry of runningTasks only: the entry, the runs and the
\* messages of every other task are unchanged, and the request is served by
\* the state of its own task alone: a run starts at once when the task has
\* no entry, whatever else is running, and the entry is marked otherwise.
C20_OtherTasksUntouched ==
  [][\A n \in Tasks :
       LET req == fresh'[n] + during'[n] > fresh[n] + during[n]
           done == completed'[n] > completed[n] IN
       (req \/ done) =>
         /\ \A m \in Tasks \ {n} :
              /\ (m \in DOMAIN runningTasks') = (m \in DOMAIN runningTasks)
              /\ m \in DOMAIN runningTasks => runningTasks'[m] = runningTasks[m]
              /\ started'[m] = started[m]
              /\ completed'[m] = completed[m]
              /\ logs'[m] = logs[m]
         /\ (req /\ n \notin DOMAIN runningTasks) =>
              /\ started'[n] = started[n] + 1
              /\ n \in DOMAIN runningTasks' /\ runningTasks'[n] = FALSE
         /\ (req /\ n \in DOMAIN runningTasks) =>
              /\ started'[n] = started[n]
              /\ n \in DOMAIN runningTasks' /\ runningTasks'[n] = TRUE
    ]_vars

\* C20 witness: three tasks were requested one after the other with no run
\* completed, and each has its own first run in flight, none held back.
C20_Witness ==
  /\ Sum(completed) = 0
  /\ Sum(during) = 0
  /\ Cardinality(DOMAIN runningTasks) = 3
  /\ \A n \in DOMAIN runningTasks :
       fresh[n] = 1 /\ started[n] = 1 /\ runningTasks[n] = FALSE

\* C21: in watch mode every session that is current is a watchify session
\* with the 'update' handler attached: once the watch task has run, the
\* bundler never holds a plain browserify session.
C21_WatchModeSessionWatches ==
  (phase # "init" /\ bundlerInstance # 0) => bundlerInstance \in watchified

\* The tasks the gulp.watch watchers request.
WatcherTasks == {"html-less", "html-assets", "html-only"}

\* C22: the stylesheet, asset and markup watchers are registered only when
\* the initial build has completed: no run of 'html-less', 'html-assets' or
\* 'html-only' is requested or started while the initial build runs; each
\* starts in a step taken with the build, its bundle included, ended.
C22_WatchersAfterBuild ==
  /\ [](\A n \in WatcherTasks :
          (started[n] > 0 \/ fresh[n] + during[n] > 0) =>
            phase = "watching" /\ buildBundle < 0)
  /\ [][\A n \in WatcherTasks :
          started'[n] > started[n] => phase = "watching" /\ buildBundle < 0
       ]_vars

\* C22 witness: with the build completed, a stylesheet change has started
\* the first run of 'html-less', the only run so far.
C22_Witness ==
  /\ phase = "watching" /\ buildBundle < 0
  /\ events = 1
  /\ started["html-less"] = 1 /\ InFlight("html-less") = 1
  /\ Sum(started) = 1

====
